---- MODULE Spec2Model ----
(***************************************************************************)
(* Model of the heart-rate stress detector (MPA_stress_detector.py):       *)
(* the BLE notification handler and its bounded sample buffer, the HRV     *)
(* pipeline (resample, interval transform, rolling RMSSD, classifier,      *)
(* result assembly) and the worker loop that drives the cycles.            *)
(*                                                                         *)
(* Numbers.  The program computes in float64.  The model computes in       *)
(* fixed point: heart rates, RR intervals and RMSSD values are integers    *)
(* counting 1/Scale of their unit, square roots are floored, and the       *)
(* classifier's three arguments count 1/Unit of a millisecond.  NaN is a   *)
(* value of its own, and every comparison with NaN is false, as in IEEE.   *)
(* Time is counted in ticks, TicksPerSec ticks to the second.              *)
(*                                                                         *)
(* Spec is the running program: notifications, the clock and ble_worker.   *)
(* LiveSpec is the worker's inner loop while the connection holds and      *)
(* samples keep arriving, with the event loop's fairness.  SpecClassify,   *)
(* SpecSeries, SpecMask, SpecSession and SpecPipeline each apply one       *)
(* function of the pipeline to arguments drawn from bounded sets.          *)
(***************************************************************************)
EXTENDS Integers, Sequences, FiniteSets, TLC

\* ------------------------------------------------------------------ bounds
TicksPerSec == 2
Scale == 10
Fine == 1000
MaxObs == 5
LongGapSec == 7
MaxSeries == 26
MaxRuns == 3
ClsMu == 1000
ClsSpan == 30
MaxTicks == 1
HorizonSec == 6
MaxNotes == 2
MaxPostTicks == 1
MaxConnectTicks == 1
MaxMask == 5

\* ------------------------------------------------- program constants
BufferMaxLen == 30
MinBpm == 40
MaxBpm == 220
low_rri == 300
high_rri == 2000
window_size == 15
step_size == 5
MinWindowValid == 5
MinValidRmssd == 5
LastWindowLen == 15
StaleSec == 15
CycleSec == 30
MinBufferLen == 5
BackoffSec == 5
NaN == -1

\* The classifier's arguments count 1/Unit ms.
Unit == Scale * Fine

Labels == {"Stressed", "Aroused", "Stable", "Relaxed"}

VARIABLES
    hr_data_buffer,   \* the deque of (timestamp, bpm), oldest first
    last_data_time,   \* watchdog reference: time of the last accepted sample
    last_post_time,   \* ble_worker's local: time of the last cycle attempt
    now,              \* datetime.now(), in ticks
    pc,               \* where ble_worker is
    wake_at,          \* when the pending asyncio.sleep ends
    result,           \* the result being posted
    sink,             \* what post_result has been handed, oldest first
    accepted,         \* history: every sample ever appended, oldest first
    notes,            \* history: how many notifications were handled
    last_note,        \* history: the payload of the latest notification
    cycles,           \* history: the cycle attempts, oldest first
    fn_call,          \* function harness: the call, with its arguments
    fn_ret            \* function harness: what the call returned

worker_vars == <<hr_data_buffer, last_data_time, last_post_time, now, pc,
                 wake_at, result, sink, accepted, notes, last_note, cycles>>
fn_vars == <<fn_call, fn_ret>>
vars == <<worker_vars, fn_vars>>

\* ------------------------------------------------------------- arithmetic
IsNum(x) == x # NaN

SetMax(S) == CHOOSE x \in S : \A y \in S : y <= x
SetMin(S) == CHOOSE x \in S : \A y \in S : x <= y
MinOf(a, b) == IF a <= b THEN a ELSE b
MaxOf(a, b) == IF a >= b THEN a ELSE b

RECURSIVE SeqSum(_)
SeqSum(s) == IF s = <<>> THEN 0 ELSE s[1] + SeqSum(Tail(s))

RECURSIVE SqrtSearch(_, _, _)
SqrtSearch(n, lo, hi) ==
    IF lo >= hi THEN lo
    ELSE LET mid == (lo + hi + 1) \div 2
         IN  IF mid <= n \div mid THEN SqrtSearch(n, mid, hi)
             ELSE SqrtSearch(n, lo, mid - 1)

\* np.sqrt, floored to the model's resolution.
ISqrt(n) == IF n <= 0 THEN 0 ELSE SqrtSearch(n, 1, MinOf(n, 46340))

\* Python 3 round(): the quotient num/den rounded to the nearest integer,
\* ties to the even one.
RoundHalfEven(num, den) ==
    LET q == num \div den
        r == num % den
    IN  IF 2 * r < den THEN q
        ELSE IF 2 * r > den THEN q + 1
        ELSE IF q % 2 = 0 THEN q ELSE q + 1

\* Series.dropna()
dropna(s) == SelectSeq(s, IsNum)

Repeat(x, n) == [i \in 1..n |-> x]

\* ------------------------------------------------------------- resampling
Second(ts) == ts \div TicksPerSec

\* build_dataframe: the rows of the buffer, indexed by timestamp.  With no
\* rows the frame has no 'timestamp' column and set_index raises KeyError.
build_dataframe(buffer) ==
    IF buffer = <<>> THEN [raised |-> TRUE, rows |-> <<>>]
    ELSE [raised |-> FALSE, rows |-> buffer]

\* Mutant: groupby instead of resample: only the seconds that hold a reading.
ResampleMean_groupby(rows) ==
    LET secs == {Second(rows[j].timestamp) : j \in DOMAIN rows}
        nth(i) == CHOOSE x \in secs : Cardinality({y \in secs : y <= x}) = i
    IN  [i \in 1..Cardinality(secs) |->
            LET bin == SelectSeq(rows, LAMBDA r : Second(r.timestamp) = nth(i))
            IN  (SeqSum([j \in DOMAIN bin |-> bin[j].bpm]) * Scale) \div Len(bin)]

\* df.resample('1S').mean(): one bin per whole second from the earliest to the
\* latest timestamp, each the mean of the readings that fall in it, NaN when
\* none does.
ResampleMean(rows) ==
    LET secs  == {Second(rows[j].timestamp) : j \in DOMAIN rows}
        first == SetMin(secs)
        last  == SetMax(secs)
    IN  [i \in 1..(last - first + 1) |->
            LET bin == SelectSeq(rows, LAMBDA r : Second(r.timestamp) = first + i - 1)
            IN  IF bin = <<>> THEN NaN
                ELSE (SeqSum([j \in DOMAIN bin |-> bin[j].bpm]) * Scale) \div Len(bin)]

\* Series.ffill(): every NaN takes the last value before it, if there is one.
ffill(s) ==
    [i \in DOMAIN s |->
        LET P == {j \in 1..i : IsNum(s[j])}
        IN  IF P = {} THEN NaN ELSE s[SetMax(P)]]

\* Series.interpolate(method='linear'), pandas' defaults: positions are taken
\* as equally spaced; a NaN between two values is filled on the line between
\* them, a NaN after the last value takes that value (limit_direction is
\* 'forward'), a NaN before the first value stays NaN.
interpolate(s) ==
    [i \in DOMAIN s |->
        IF IsNum(s[i]) THEN s[i]
        ELSE LET P == {j \in 1..i : IsNum(s[j])}
                 Q == {j \in i..Len(s) : IsNum(s[j])}
             IN  IF P = {} THEN NaN
                 ELSE IF Q = {} THEN s[SetMax(P)]
                 ELSE LET p == SetMax(P)
                          q == SetMin(Q)
                      IN  s[p] + ((s[q] - s[p]) * (i - p)) \div (q - p)]

\* resampled = df.resample('1S').mean().ffill()
Resampled(rows) == ffill(ResampleMean(rows))

\* resampled['HR_interp']
HRInterp(rows) == interpolate(Resampled(rows))

\* ----------------------------------------------------- interval transform
\* 60000 / HR_interp, in 1/Scale ms.
RRIntervals(hr) ==
    [i \in DOMAIN hr |->
        IF IsNum(hr[i]) THEN (60000 * Scale * Scale) \div hr[i] ELSE NaN]

MaskOutliers(s) ==
    [i \in DOMAIN s |->
        IF IsNum(s[i]) /\ (s[i] < low_rri * Scale \/ s[i] > high_rri * Scale)
        THEN NaN ELSE s[i]]

\* Mutant: the two statements in the other order.
remove_outliers_swapped(s) == MaskOutliers(interpolate(s))

\* remove_outliers_and_interpolate on the column as a sequence: mask, then
\* interpolate.
remove_outliers_and_interpolate(s) == interpolate(MaskOutliers(s))

\* ---------------------------------------------------------------- RMSSD
calculate_rmssd(w) ==
    IF Len(w) < 2 THEN NaN
    ELSE ISqrt(SeqSum([i \in 1..(Len(w) - 1) |-> (w[i + 1] - w[i]) * (w[i + 1] - w[i])])
               \div (Len(w) - 1))

\* The loop of compute_rmssd_series from window start `start` (0-based) on:
\* each window with at least 5 values left after dropna extends the list by
\* step_size copies of its RMSSD, any other window extends it by nothing.
RECURSIVE rmssd_blocks(_, _)
rmssd_blocks(rr_series, start) ==
    IF start + window_size > Len(rr_series) THEN <<>>
    ELSE LET window == dropna(SubSeq(rr_series, start + 1, start + window_size))
         IN  (IF Len(window) >= MinWindowValid
              THEN Repeat(calculate_rmssd(window), step_size)
              ELSE <<>>)
             \o rmssd_blocks(rr_series, start + step_size)

\* Mutant: the padding appends NaN, whatever was computed.
pad_rmssd_nan(rmssd_values, n) ==
    SubSeq([i \in 1..MaxOf(Len(rmssd_values), n) |->
               IF i <= Len(rmssd_values) THEN rmssd_values[i] ELSE NaN],
           1, n)

\* The padding loop and the final slice of compute_rmssd_series.
pad_rmssd(rmssd_values, n) ==
    LET last == IF rmssd_values = <<>> THEN NaN ELSE rmssd_values[Len(rmssd_values)]
    IN  SubSeq([i \in 1..MaxOf(Len(rmssd_values), n) |->
                   IF i <= Len(rmssd_values) THEN rmssd_values[i] ELSE last],
               1, n)

compute_rmssd_series(rr_series) ==
    pad_rmssd(rmssd_blocks(rr_series, 0), Len(rr_series))

\* ------------------------------------------------------------ classifier
\* Mutant: the coefficients 0.7 and 0.5 change places.
classify_swapped(rmssd_value, mean_rmssd, std_rmssd) ==
    LET nums == IsNum(rmssd_value) /\ IsNum(mean_rmssd) /\ IsNum(std_rmssd)
    IN  IF IsNum(std_rmssd) /\ std_rmssd * 1000 < Unit THEN "Stable"
        ELSE IF nums /\ 10 * rmssd_value <= 10 * mean_rmssd - 5 * std_rmssd THEN "Stressed"
        ELSE IF nums /\ 10 * rmssd_value <= 10 * mean_rmssd - 7 * std_rmssd THEN "Aroused"
        ELSE IF nums /\ 100 * rmssd_value <= 100 * mean_rmssd + 25 * std_rmssd THEN "Stable"
        ELSE "Relaxed"

\* Mutant: the Stressed rule compares with >= where it should with <=.
classify_ge(rmssd_value, mean_rmssd, std_rmssd) ==
    LET nums == IsNum(rmssd_value) /\ IsNum(mean_rmssd) /\ IsNum(std_rmssd)
    IN  IF IsNum(std_rmssd) /\ std_rmssd * 1000 < Unit THEN "Stable"
        ELSE IF nums /\ 10 * rmssd_value >= 10 * mean_rmssd - 7 * std_rmssd THEN "Stressed"
        ELSE IF nums /\ 10 * rmssd_value <= 10 * mean_rmssd - 5 * std_rmssd THEN "Aroused"
        ELSE IF nums /\ 100 * rmssd_value <= 100 * mean_rmssd + 25 * std_rmssd THEN "Stable"
        ELSE "Relaxed"

\* classify_stress_hierarchy; the arguments count 1/Unit ms.  A comparison
\* with NaN on either side is false.
classify_stress_hierarchy(rmssd_value, mean_rmssd, std_rmssd) ==
    LET nums == IsNum(rmssd_value) /\ IsNum(mean_rmssd) /\ IsNum(std_rmssd)
    IN  IF IsNum(std_rmssd) /\ std_rmssd * 1000 < Unit THEN "Stable"
        ELSE IF nums /\ 10 * rmssd_value <= 10 * mean_rmssd - 7 * std_rmssd THEN "Stressed"
        ELSE IF nums /\ 10 * rmssd_value <= 10 * mean_rmssd - 5 * std_rmssd THEN "Aroused"
        ELSE IF nums /\ 100 * rmssd_value <= 100 * mean_rmssd + 25 * std_rmssd THEN "Stable"
        ELSE "Relaxed"

\* np.nanmean(valid_rmssd), in 1/Unit ms.
nanmean(valid) == (SeqSum(valid) * Fine) \div Len(valid)

\* np.nanstd(valid_rmssd): the population standard deviation, in 1/Unit ms.
nanstd(valid) ==
    LET m == SeqSum(valid) \div Len(valid)
    IN  ISqrt(SeqSum([i \in DOMAIN valid |-> (valid[i] - m) * (valid[i] - m)])
              \div Len(valid)) * Fine

\* valid_rmssd.iloc[-15:] if len(valid_rmssd) >= 15 else valid_rmssd
last_window(valid) ==
    IF Len(valid) >= LastWindowLen
    THEN SubSeq(valid, Len(valid) - LastWindowLen + 1, Len(valid))
    ELSE valid

\* last_window.apply(lambda x: classify_stress_hierarchy(x, mean, std))
classify_window(valid) ==
    LET w == last_window(valid)
    IN  [i \in DOMAIN w |->
            classify_stress_hierarchy(w[i] * Fine, nanmean(valid), nanstd(valid))]

\* Mutant: the chain asks for Aroused before it asks for Stressed.
session_status_aroused_first(classifications) ==
    LET has(l) == \E i \in DOMAIN classifications : classifications[i] = l
    IN  IF has("Aroused") THEN "Aroused"
        ELSE IF has("Stressed") THEN "Stressed"
        ELSE IF has("Stable") THEN "Stable"
        ELSE "Relaxed"

\* The if/elif chain over classifications.values.
session_status(classifications) ==
    LET has(l) == \E i \in DOMAIN classifications : classifications[i] = l
    IN  IF has("Stressed") THEN "Stressed"
        ELSE IF has("Aroused") THEN "Aroused"
        ELSE IF has("Stable") THEN "Stable"
        ELSE "Relaxed"

\* ------------------------------------------------------- result assembly
\* strftime("%Y-%m-%d %H:%M:%S"): the time to the whole second.
strftime(t) == Second(t)

RecordKeys == {"id", "time", "stress_flag", "heart_rate"}
ErrorKeys == {"status", "message"}

ErrorOutcome(found) ==
    [kind |-> "error", keys |-> ErrorKeys, found |-> found,
     time |-> 0, stress_flag |-> "", heart_rate |-> 0]

ClassificationRecord(t, status, hr) ==
    [kind |-> "record", keys |-> RecordKeys, found |-> 0,
     time |-> t, stress_flag |-> status, heart_rate |-> hr]

\* The stages of process_stress_from_dataframe on the rows of df.
RRSeries(rows) == remove_outliers_and_interpolate(RRIntervals(HRInterp(rows)))
RMSSDSeries(rows) == compute_rmssd_series(RRSeries(rows))

\* From valid_rmssd on: the error outcome, or the record.
assemble(rows, valid_rmssd, utcnow) ==
    IF Len(valid_rmssd) < MinValidRmssd THEN ErrorOutcome(Len(valid_rmssd))
    ELSE ClassificationRecord(
             strftime(utcnow),
             session_status(classify_window(valid_rmssd)),
             RoundHalfEven(SeqSum([j \in DOMAIN rows |-> rows[j].bpm]), Len(rows)))

\* Mutant: the undefined entries are counted with the defined ones.
process_stress_nodrop(rows, utcnow) ==
    assemble(rows, RMSSDSeries(rows), utcnow)

process_stress_from_dataframe(rows, utcnow) ==
    assemble(rows, dropna(RMSSDSeries(rows)), utcnow)

\* lines 159-161 of ble_worker: snapshot, frame, pipeline.
RaisedOutcome ==
    [kind |-> "raised", keys |-> {}, found |-> 0,
     time |-> 0, stress_flag |-> "", heart_rate |-> 0]

\* ble_worker's `result` before any cycle ran.
NoResult ==
    [kind |-> "none", keys |-> {}, found |-> 0,
     time |-> 0, stress_flag |-> "", heart_rate |-> 0]

run_cycle(buffer_list, utcnow) ==
    LET df == build_dataframe(buffer_list)
    IN  IF df.raised THEN RaisedOutcome
        ELSE process_stress_from_dataframe(df.rows, utcnow)

\* ===================================================== function harness
\* The pure functions of the pipeline, each applied once to arguments drawn
\* from bounded sets.
NoCall == [fn |-> "none", window |-> <<>>, mu |-> 0, sd |-> 0,
           series |-> <<>>, rows |-> <<>>]

ClsValues == ((ClsMu - ClsSpan)..(ClsMu + ClsSpan)) \cup {NaN}
ClsMeans == {ClsMu, ClsMu + 3}
ClsStds == {NaN, 0, Unit \div 1000 - 1, Unit \div 1000, ClsSpan \div 2, ClsSpan}

ClassifyCalls ==
    {[NoCall EXCEPT !.fn = "classify", !.window = <<v1, v2>>, !.mu = m, !.sd = d] :
        v1 \in ClsValues, v2 \in ClsValues, m \in ClsMeans, d \in ClsStds}

\* Interval series: a pattern of values with positions a+1..b missing.
RRPattern(p, i) ==
    IF p = 1 THEN (IF i % 2 = 0 THEN 1000 * Scale ELSE (60000 * Scale) \div 62)
    ELSE 800 * Scale + i * i * (Scale \div 2)

SeriesCalls ==
    {[NoCall EXCEPT !.fn = "rmssd",
                    !.series = [i \in 1..n |-> IF a < i /\ i <= b THEN NaN
                                               ELSE RRPattern(p, i)]] :
        n \in 0..MaxSeries, a \in 0..MaxSeries, b \in 0..MaxSeries, p \in 1..2}

\* Valid RMSSD series: up to MaxRuns runs of one value each.
RunValues == {5 * Scale, 20 * Scale, 22 * Scale, 50 * Scale}
RunLengths == {1, 5, 10}
Runs == UNION {[1..k -> RunValues \X RunLengths] : k \in 0..MaxRuns}

RECURSIVE Unroll(_)
Unroll(runs) ==
    IF runs = <<>> THEN <<>>
    ELSE Repeat(runs[1][1], runs[1][2]) \o Unroll(Tail(runs))

SessionCalls ==
    {[NoCall EXCEPT !.fn = "session", !.series = Unroll(r)] : r \in Runs}

\* Snapshots: up to MaxObs observations, each half a second or LongGapSec
\* and a half seconds after the one before it.
ObsGaps == {1, LongGapSec * TicksPerSec + 1}
ObsBpms == {60, 62, 210}
ObsSteps == UNION {[1..k -> ObsGaps \X ObsBpms] : k \in 0..MaxObs}

Snapshot(steps) ==
    [i \in DOMAIN steps |->
        [timestamp |-> SeqSum([j \in 1..i |-> steps[j][1]]), bpm |-> steps[i][2]]]

PipelineCalls ==
    {[NoCall EXCEPT !.fn = "pipeline", !.rows = Snapshot(st)] : st \in ObsSteps}

\* Interval series of up to MaxMask entries: missing, just outside and on
\* each bound, and in between.
MaskValues ==
    {NaN, low_rri * Scale - 1, low_rri * Scale, 1000 * Scale,
     high_rri * Scale, high_rri * Scale + 1}
MaskCalls ==
    {[NoCall EXCEPT !.fn = "mask", !.series = sq] :
        sq \in UNION {[1..k -> MaskValues] : k \in 0..MaxMask}}

HarnessClock == TicksPerSec + 1

WorkerIdle ==
    /\ hr_data_buffer = <<>>
    /\ last_data_time = 0
    /\ last_post_time = 0
    /\ now = 0
    /\ pc = "idle"
    /\ wake_at = 0
    /\ result = NoResult
    /\ sink = <<>>
    /\ accepted = <<>>
    /\ notes = 0
    /\ last_note = <<>>
    /\ cycles = <<>>

FnStart(calls) ==
    /\ WorkerIdle
    /\ fn_call \in calls
    /\ fn_ret = [done |-> FALSE]

ApplyClassify ==
    /\ fn_call.fn = "classify" /\ ~fn_ret.done
    /\ fn_ret' = [done |-> TRUE,
                  labels |-> [i \in DOMAIN fn_call.window |->
                      classify_stress_hierarchy(fn_call.window[i], fn_call.mu, fn_call.sd)]]
    /\ UNCHANGED <<worker_vars, fn_call>>

ApplyRmssdSeries ==
    /\ fn_call.fn = "rmssd" /\ ~fn_ret.done
    /\ fn_ret' = [done |-> TRUE, rmssd |-> compute_rmssd_series(fn_call.series)]
    /\ UNCHANGED <<worker_vars, fn_call>>

ApplySession ==
    /\ fn_call.fn = "session" /\ ~fn_ret.done
    /\ fn_ret' = [done |-> TRUE,
                  classifications |->
                      IF Len(fn_call.series) < MinValidRmssd THEN <<>>
                      ELSE classify_window(fn_call.series),
                  result |-> assemble(<<[timestamp |-> 0, bpm |-> 60]>>,
                                      fn_call.series, HarnessClock)]
    /\ UNCHANGED <<worker_vars, fn_call>>

ApplyPipeline ==
    /\ fn_call.fn = "pipeline" /\ ~fn_ret.done
    /\ fn_ret' = [done |-> TRUE,
                  resampled |-> IF fn_call.rows = <<>> THEN <<>>
                                ELSE HRInterp(fn_call.rows),
                  rr |-> IF fn_call.rows = <<>> THEN <<>> ELSE RRSeries(fn_call.rows),
                  rmssd |-> IF fn_call.rows = <<>> THEN <<>>
                            ELSE RMSSDSeries(fn_call.rows),
                  result |-> run_cycle(fn_call.rows, HarnessClock)]
    /\ UNCHANGED <<worker_vars, fn_call>>

\* One specification for each function: its calls, and its application.
ClassifyInit == FnStart(ClassifyCalls)
ClassifyNext == ApplyClassify
SpecClassify == ClassifyInit /\ [][ClassifyNext]_vars

SeriesInit == FnStart(SeriesCalls)
SeriesNext == ApplyRmssdSeries
SpecSeries == SeriesInit /\ [][SeriesNext]_vars

SessionInit == FnStart(SessionCalls)
SessionNext == ApplySession
SpecSession == SessionInit /\ [][SessionNext]_vars

PipelineInit == FnStart(PipelineCalls)
PipelineNext == ApplyPipeline
SpecPipeline == PipelineInit /\ [][PipelineNext]_vars

\* remove_outliers_and_interpolate, and the same again on what it returned.
ApplyMask ==
    /\ fn_call.fn = "mask" /\ ~fn_ret.done
    /\ fn_ret' = [done |-> TRUE,
                  masked |-> MaskOutliers(fn_call.series),
                  once |-> remove_outliers_and_interpolate(fn_call.series),
                  twice |-> remove_outliers_and_interpolate(
                                remove_outliers_and_interpolate(fn_call.series))]
    /\ UNCHANGED <<worker_vars, fn_call>>

MaskInit == FnStart(MaskCalls)
MaskNext == ApplyMask
SpecMask == MaskInit /\ [][MaskNext]_vars

\* ============================================================== worker
\* ---------------------------------------------- notification handler
\* data[0] and data[1] of a bytearray; past its end they raise IndexError.
Indexable(data, k) == k + 1 <= Len(data)

\* int.from_bytes(data[1:3], byteorder='little'): the slice holds what there
\* is of bytes 1 and 2, and no bytes make 0.
FromBytesLE(data) ==
    (IF Len(data) >= 2 THEN data[2] ELSE 0) + (IF Len(data) >= 3 THEN 256 * data[3] ELSE 0)

\* The decoding of handle_hr_data: the bpm, or that the try block raised.
Decode(data) ==
    IF ~Indexable(data, 0) THEN [raised |-> TRUE, bpm |-> 0]
    ELSE IF data[1] % 2 = 0
         THEN (IF Indexable(data, 1) THEN [raised |-> FALSE, bpm |-> data[2]]
               ELSE [raised |-> TRUE, bpm |-> 0])
         ELSE [raised |-> FALSE, bpm |-> FromBytesLE(data)]

\* Mutant: the upper bound taken one too high.
InvalidBpm_upper(bpm) == bpm = 0 \/ bpm < MinBpm \/ bpm > MaxBpm + 1

\* if bpm == 0 or bpm < 40 or bpm > 220: return
InvalidBpm(bpm) == bpm = 0 \/ bpm < MinBpm \/ bpm > MaxBpm

\* Mutant: a full deque drops the new reading and keeps the old ones.
DequeAppend_keep(buffer, x) ==
    IF Len(buffer) >= BufferMaxLen THEN buffer ELSE Append(buffer, x)

\* deque(maxlen=30).append
DequeAppend(buffer, x) ==
    IF Len(buffer) >= BufferMaxLen THEN Append(Tail(buffer), x)
    ELSE Append(buffer, x)

Connected == pc \in {"sleeping", "posting"}

\* Mutant: the watchdog reference is set for every notification.
handle_hr_data_touch(data) ==
    /\ Connected
    /\ notes < MaxNotes
    /\ notes' = notes + 1
    /\ last_note' = data
    /\ last_data_time' = now
    /\ LET d == Decode(data)
       IN  IF d.raised \/ InvalidBpm(d.bpm)
           THEN UNCHANGED <<hr_data_buffer, accepted>>
           ELSE /\ hr_data_buffer' = DequeAppend(hr_data_buffer, [timestamp |-> now, bpm |-> d.bpm])
                /\ accepted' = Append(accepted, [timestamp |-> now, bpm |-> d.bpm])
    /\ UNCHANGED <<last_post_time, now, pc, wake_at, result, sink, cycles, fn_vars>>

\* handle_hr_data, called with the clock at `now`.
handle_hr_data(data) ==
    /\ Connected
    /\ notes < MaxNotes
    /\ notes' = notes + 1
    /\ last_note' = data
    /\ LET d == Decode(data)
       IN  IF d.raised \/ InvalidBpm(d.bpm)
           THEN UNCHANGED <<hr_data_buffer, last_data_time, accepted>>
           ELSE /\ hr_data_buffer' = DequeAppend(hr_data_buffer, [timestamp |-> now, bpm |-> d.bpm])
                /\ accepted' = Append(accepted, [timestamp |-> now, bpm |-> d.bpm])
                /\ last_data_time' = now
    /\ UNCHANGED <<last_post_time, now, pc, wake_at, result, sink, cycles, fn_vars>>

\* The payloads the sensor is taken to send: 8-bit and 16-bit readings on
\* both sides of each bound, a reading of 0, and payloads too short to decode.
Payloads ==
    {<<0, 60>>, <<16, 40>>, <<0, 39>>, <<0, 220>>, <<0, 221>>, <<0, 0>>,
     <<1, 62, 0>>, <<1, 44, 1>>, <<1>>, <<0>>, <<>>}

\* ------------------------------------------------------------ ble_worker
\* heartbeat_counter only paces a log line and is left out.  The worker is
\* at "connecting" (entering the BleakClient context), "sleeping" (in the
\* inner loop's asyncio.sleep(1)), "posting" (awaiting post_result) or
\* "backoff" (the except clause's asyncio.sleep(5)).
StartTick == 2 * CycleSec * TicksPerSec

\* A buffer of n readings, one a second, the newest at tick t.
WarmBuffer(n, t) ==
    [i \in 1..n |-> [timestamp |-> t - (n - i) * TicksPerSec,
                     bpm |-> IF i % 2 = 1 THEN 60 ELSE 62]]

\* One entry of the history of cycle attempts: when line 157 found a cycle
\* due, how long the buffer was, whether the pipeline ran, and where in the
\* sink its outcome went (0: nowhere).
Attempt(at, len, ran, sunk) == [at |-> at, len |-> len, ran |-> ran, sunk |-> sunk]

WarmSizes == {MinBufferLen - 1, MinBufferLen, window_size, BufferMaxLen - 1, BufferMaxLen}

\* The program as it starts: nothing received, the worker about to connect.
ColdStart ==
    /\ hr_data_buffer = <<>>
    /\ accepted = <<>>
    /\ last_data_time = StartTick
    /\ last_post_time = StartTick
    /\ pc = "connecting"
    /\ wake_at = StartTick + MaxConnectTicks
    /\ cycles = <<>>

\* The program some time into a connection: n readings received, one a
\* second, the newest just now or a little over 15 s ago; the worker asleep
\* in its loop, the next cycle due at its next wake-up or a cycle just
\* attempted.  The latest attempt was made at last_post_time, on the readings
\* the buffer held by then (a buffer that is full now was full then).
WarmStart ==
    \E n \in WarmSizes, due \in BOOLEAN, silent \in BOOLEAN :
        /\ last_data_time = IF silent THEN StartTick - StaleSec * TicksPerSec
                            ELSE StartTick
        /\ hr_data_buffer = WarmBuffer(n, last_data_time)
        /\ accepted = hr_data_buffer
        /\ last_post_time = IF due THEN StartTick + 1 - CycleSec * TicksPerSec
                            ELSE StartTick - 1
        /\ pc = "sleeping"
        /\ wake_at = StartTick + 1
        /\ LET then == IF n = BufferMaxLen THEN n
                       ELSE Cardinality({i \in 1..n :
                                hr_data_buffer[i].timestamp <= last_post_time})
           IN  cycles = <<Attempt(last_post_time, then, then >= MinBufferLen, 0)>>

Init ==
    /\ now = StartTick
    /\ result = NoResult
    /\ sink = <<>>
    /\ notes = 0
    /\ last_note = <<>>
    /\ ColdStart \/ WarmStart
    /\ fn_call = NoCall
    /\ fn_ret = [done |-> FALSE]

\* Time passes, while nothing the worker waits for is overdue: tick by tick
\* for the first MaxTicks ticks, and from there on straight to the end of
\* the wait.
Tick ==
    /\ now < wake_at
    /\ \E t \in {now + 1, wake_at} :
        /\ t = now + 1 => now < StartTick + MaxTicks \/ t = wake_at
        /\ t <= StartTick + HorizonSec * TicksPerSec
        /\ now' = t
    /\ UNCHANGED <<hr_data_buffer, last_data_time, last_post_time, pc, wake_at,
                   result, sink, accepted, notes, last_note, cycles, fn_vars>>

\* async with BleakClient(...) and start_notify succeed.
Connect ==
    /\ pc = "connecting"
    /\ pc' = "sleeping"
    /\ wake_at' = now + TicksPerSec
    /\ UNCHANGED <<hr_data_buffer, last_data_time, last_post_time, now,
                   result, sink, accepted, notes, last_note, cycles, fn_vars>>

\* They raise: the except clause logs and sleeps 5 s.
ConnectFails ==
    /\ pc = "connecting"
    /\ pc' = "backoff"
    /\ wake_at' = now + BackoffSec * TicksPerSec
    /\ UNCHANGED <<hr_data_buffer, last_data_time, last_post_time, now,
                   result, sink, accepted, notes, last_note, cycles, fn_vars>>

\* Mutant: last_post_time is initialised inside the outer loop.
Reconnect_reset ==
    /\ pc = "backoff"
    /\ now >= wake_at
    /\ pc' = "connecting"
    /\ wake_at' = now + MaxConnectTicks
    /\ last_post_time' = now
    /\ UNCHANGED <<hr_data_buffer, last_data_time, now,
                   result, sink, accepted, notes, last_note, cycles, fn_vars>>

\* The 5 s sleep ends: the outer loop connects again.
Reconnect ==
    /\ pc = "backoff"
    /\ now >= wake_at
    /\ pc' = "connecting"
    /\ wake_at' = now + MaxConnectTicks
    /\ UNCHANGED <<hr_data_buffer, last_data_time, last_post_time, now,
                   result, sink, accepted, notes, last_note, cycles, fn_vars>>

\* Mutant: the watchdog gives up a second early.
Stale_early == now - last_data_time > (StaleSec - 1) * TicksPerSec

Stale == now - last_data_time > StaleSec * TicksPerSec
CycleDue == now - last_post_time >= CycleSec * TicksPerSec

\* One pass of the inner loop after its sleep, the watchdog found the data
\* stale: raise, leave the connection, sleep 5 s.
WakeStale ==
    /\ pc = "sleeping" /\ now >= wake_at
    /\ Stale
    /\ pc' = "backoff"
    /\ wake_at' = now + BackoffSec * TicksPerSec
    /\ UNCHANGED <<hr_data_buffer, last_data_time, last_post_time, now,
                   result, sink, accepted, notes, last_note, cycles, fn_vars>>

\* No cycle is due: sleep again.
WakeIdle ==
    /\ pc = "sleeping" /\ now >= wake_at
    /\ ~Stale /\ ~CycleDue
    /\ wake_at' = now + TicksPerSec
    /\ UNCHANGED <<hr_data_buffer, last_data_time, last_post_time, now, pc,
                   result, sink, accepted, notes, last_note, cycles, fn_vars>>

\* Mutant: an attempt that finds the buffer too short leaves last_post_time
\* as it was.
WakeSkip_noreset ==
    /\ pc = "sleeping" /\ now >= wake_at
    /\ ~Stale /\ CycleDue
    /\ Len(hr_data_buffer) < MinBufferLen
    /\ wake_at' = now + TicksPerSec
    /\ cycles' = Append(cycles, Attempt(now, Len(hr_data_buffer), FALSE, 0))
    /\ UNCHANGED <<hr_data_buffer, last_data_time, last_post_time, now, pc,
                   result, sink, accepted, notes, last_note, fn_vars>>

\* A cycle is due and the buffer is too short: note the attempt, sleep again.
WakeSkip ==
    /\ pc = "sleeping" /\ now >= wake_at
    /\ ~Stale /\ CycleDue
    /\ Len(hr_data_buffer) < MinBufferLen
    /\ last_post_time' = now
    /\ wake_at' = now + TicksPerSec
    /\ cycles' = Append(cycles, Attempt(now, Len(hr_data_buffer), FALSE, 0))
    /\ UNCHANGED <<hr_data_buffer, last_data_time, now, pc,
                   result, sink, accepted, notes, last_note, fn_vars>>

\* Mutant: the cycle works on the deque itself and consumes it.
WakeCycle_drain ==
    /\ pc = "sleeping" /\ now >= wake_at
    /\ ~Stale /\ CycleDue
    /\ Len(hr_data_buffer) >= MinBufferLen
    /\ result' = run_cycle(hr_data_buffer, now)
    /\ hr_data_buffer' = <<>>
    /\ pc' = "posting"
    /\ wake_at' = now + MaxPostTicks
    /\ sink' = Append(sink, result')
    /\ cycles' = Append(cycles, Attempt(now, Len(hr_data_buffer), TRUE, Len(sink')))
    /\ UNCHANGED <<last_data_time, last_post_time, now,
                   accepted, notes, last_note, fn_vars>>

\* A cycle is due and the buffer is long enough: run the pipeline on a copy
\* of the buffer and hand the result to post_result, which awaits the server.
\* An exception out of the pipeline goes to the except clause instead.
WakeCycle ==
    /\ pc = "sleeping" /\ now >= wake_at
    /\ ~Stale /\ CycleDue
    /\ Len(hr_data_buffer) >= MinBufferLen
    /\ result' = run_cycle(hr_data_buffer, now)
    /\ IF result'.kind = "raised"
       THEN /\ pc' = "backoff"
            /\ wake_at' = now + BackoffSec * TicksPerSec
            /\ sink' = sink
       ELSE /\ pc' = "posting"
            /\ wake_at' = now + MaxPostTicks
            /\ sink' = Append(sink, result')
    /\ cycles' = Append(cycles, Attempt(now, Len(hr_data_buffer), TRUE,
                                        IF sink' = sink THEN 0 ELSE Len(sink')))
    /\ UNCHANGED <<hr_data_buffer, last_data_time, last_post_time, now,
                   accepted, notes, last_note, fn_vars>>

\* post_result returns, whatever the server said: note the attempt, sleep.
PostDone ==
    /\ pc = "posting"
    /\ last_post_time' = now
    /\ pc' = "sleeping"
    /\ wake_at' = now + TicksPerSec
    /\ UNCHANGED <<hr_data_buffer, last_data_time, now,
                   result, sink, accepted, notes, last_note, cycles, fn_vars>>

Next ==
    \/ \E data \in Payloads : handle_hr_data(data)
    \/ Tick
    \/ Connect
    \/ ConnectFails
    \/ Reconnect
    \/ WakeStale
    \/ WakeIdle
    \/ WakeSkip
    \/ WakeCycle
    \/ PostDone

Spec == Init /\ [][Next]_vars

\* ------------------------------------------- the worker, well supplied
\* The inner loop of ble_worker while the connection holds and the sensor
\* keeps sending: no accepted sample comes 15 s or more after the one before
\* it, so the clock never reaches last_data_time + 15 s.  The event loop runs
\* the worker whenever its sleep is over, and post_result returns (its
\* request has a timeout).
LiveStart ==
    \E n \in WarmSizes, due \in BOOLEAN, quiet \in BOOLEAN :
        /\ last_data_time = IF quiet THEN StartTick - (StaleSec * TicksPerSec - 2)
                            ELSE StartTick
        /\ hr_data_buffer = WarmBuffer(n, last_data_time)
        /\ accepted = hr_data_buffer
        /\ last_post_time = IF due THEN StartTick + 1 - CycleSec * TicksPerSec
                            ELSE StartTick - 1
        /\ pc = "sleeping"
        /\ wake_at = StartTick + 1
        /\ LET then == IF n = BufferMaxLen THEN n
                       ELSE Cardinality({i \in 1..n :
                                hr_data_buffer[i].timestamp <= last_post_time})
           IN  cycles = <<Attempt(last_post_time, then, then >= MinBufferLen, 0)>>

LiveInit ==
    /\ now = StartTick
    /\ result = NoResult
    /\ sink = <<>>
    /\ notes = 0
    /\ last_note = <<>>
    /\ LiveStart
    /\ fn_call = NoCall
    /\ fn_ret = [done |-> FALSE]

\* What the sensor sends here: a reading that is accepted, one that is out
\* of range, and a payload too short to decode.
LivePayloads == {<<0, 60>>, <<0, 221>>, <<>>}

LiveTick ==
    /\ Tick
    /\ now' - last_data_time < StaleSec * TicksPerSec

LiveNext ==
    \/ \E data \in LivePayloads : handle_hr_data(data)
    \/ LiveTick
    \/ WakeIdle
    \/ WakeSkip
    \/ WakeCycle
    \/ PostDone

\* Weak fairness of WakeCycle, WF_vars(WakeCycle), with the condition under
\* which WakeCycle can take a step written out: its guard (a step of
\* WakeCycle always adds to cycles).
WakeCycleEnabled ==
    /\ pc = "sleeping" /\ now >= wake_at
    /\ ~Stale /\ CycleDue
    /\ Len(hr_data_buffer) >= MinBufferLen
FairWakeCycle == []<>~WakeCycleEnabled \/ []<><<WakeCycle>>_vars

LiveSpec ==
    /\ LiveInit /\ [][LiveNext]_vars
    /\ WF_vars(LiveTick)
    /\ WF_vars(WakeIdle) /\ WF_vars(WakeSkip) /\ FairWakeCycle
    /\ WF_vars(PostDone)

\* ================================================================ claims
Defined(s) == {i \in DOMAIN s : IsNum(s[i])}
Newest(s, k) == SubSeq(s, Len(s) - k + 1, Len(s))

C1_InRange ==
    \A i \in DOMAIN hr_data_buffer :
        hr_data_buffer[i].bpm >= 40 /\ hr_data_buffer[i].bpm <= 220
C1_RejectedKeepsBuffer ==
    (/\ notes' = notes + 1
     /\ LET d == Decode(last_note')
        IN  d.raised \/ d.bpm = 0 \/ d.bpm < 40 \/ d.bpm > 220)
    => hr_data_buffer' = hr_data_buffer
\* C1: every observation in the Sample Buffer has a BPM in 40..220, and a
\* notification whose payload does not decode, or decodes to 0, to less than
\* 40 or to more than 220, leaves the buffer as it was.
C1_Theorem == []C1_InRange /\ [][C1_RejectedKeepsBuffer]_vars
\* A reading of 220 is in the buffer, and the notification after it was
\* rejected.
C1_Witness ==
    /\ hr_data_buffer # <<>>
    /\ hr_data_buffer[Len(hr_data_buffer)].bpm = 220
    /\ notes > 1
    /\ Decode(last_note).raised \/ Decode(last_note).bpm > 220

\* C2: the buffer holds at most 30 observations, and they are the most recent
\* accepted samples, in arrival order.
C2_Theorem ==
    /\ Len(hr_data_buffer) <= 30
    /\ Len(hr_data_buffer) = MinOf(30, Len(accepted))
    /\ hr_data_buffer = Newest(accepted, Len(hr_data_buffer))
\* More than 30 samples were accepted: the oldest ones are gone.
C2_Witness ==
    /\ Len(accepted) > 31
    /\ Len(hr_data_buffer) = 30
    /\ hr_data_buffer[1] # accepted[1]

C4_Rule(v, mu, sigma) ==
    LET lt(a, b) == IsNum(v) /\ IsNum(mu) /\ IsNum(sigma) /\ a <= b
    IN  CASE IsNum(sigma) /\ 1000 * sigma < Unit -> "Stable"
          [] OTHER ->
             CASE lt(10 * v, 10 * mu - 7 * sigma) -> "Stressed"
               [] OTHER ->
                  CASE lt(2 * v, 2 * mu - sigma) -> "Aroused"
                    [] OTHER ->
                       CASE lt(4 * v, 4 * mu + sigma) -> "Stable"
                         [] OTHER -> "Relaxed"
\* C4: the classifier returns the label of the first rule that matches:
\* sigma < 0.001 Stable; v <= mu - 0.7 sigma Stressed; v <= mu - 0.5 sigma
\* Aroused; v <= mu + 0.25 sigma Stable; otherwise Relaxed.
C4_Theorem ==
    (fn_call.fn = "classify" /\ fn_ret.done) =>
        \A i \in DOMAIN fn_call.window :
            fn_ret.labels[i] = C4_Rule(fn_call.window[i], fn_call.mu, fn_call.sd)
\* One call that took the third rule and the fifth.
C4_Witness ==
    /\ fn_call.fn = "classify" /\ fn_ret.done
    /\ fn_ret.labels = <<"Aroused", "Relaxed">>

Rank(l) ==
    CASE l = "Stressed" -> 1 [] l = "Aroused" -> 2 [] l = "Stable" -> 3 [] l = "Relaxed" -> 4
\* C6: for fixed mu and sigma and v1 <= v2, the label of v1 is not later than
\* the label of v2 in the order Stressed < Aroused < Stable < Relaxed.
C6_Theorem ==
    (/\ fn_call.fn = "classify" /\ fn_ret.done
     /\ IsNum(fn_call.window[1]) /\ IsNum(fn_call.window[2])
     /\ fn_call.window[1] <= fn_call.window[2])
    => Rank(fn_ret.labels[1]) <= Rank(fn_ret.labels[2])
\* v1 < v2, and the labels differ.
C6_Witness ==
    /\ fn_call.fn = "classify" /\ fn_ret.done
    /\ IsNum(fn_call.window[1]) /\ IsNum(fn_call.window[2])
    /\ fn_call.window[1] < fn_call.window[2]
    /\ fn_ret.labels = <<"Stressed", "Stable">>

\* C5: the session status is taken from the labels of the most recent 15
\* defined variability values (all of them if there are fewer), each
\* classified against the mean and deviation of the whole series: Stressed
\* if any is Stressed, else Aroused if any is Aroused, else Stable if any is
\* Stable, else Relaxed.
C5_Theorem ==
    (fn_call.fn = "session" /\ fn_ret.done /\ fn_ret.result.kind = "record") =>
        LET valid == fn_call.series
            m == MinOf(15, Len(valid))
            L == fn_ret.classifications
            in(l) == \E i \in DOMAIN L : L[i] = l
        IN  /\ Len(L) = m
            /\ \A i \in 1..m :
                   L[i] = classify_stress_hierarchy(
                              valid[Len(valid) - m + i] * Fine, nanmean(valid), nanstd(valid))
            /\ in("Stressed") => fn_ret.result.stress_flag = "Stressed"
            /\ (~in("Stressed") /\ in("Aroused")) => fn_ret.result.stress_flag = "Aroused"
            /\ (~in("Stressed") /\ ~in("Aroused") /\ in("Stable")) =>
                   fn_ret.result.stress_flag = "Stable"
            /\ (~in("Stressed") /\ ~in("Aroused") /\ ~in("Stable")) =>
                   fn_ret.result.stress_flag = "Relaxed"
\* More than 15 values, a window with Stressed among other labels.
C5_Witness ==
    /\ fn_call.fn = "session" /\ fn_ret.done
    /\ Len(fn_call.series) > 15
    /\ \E i, j \in DOMAIN fn_ret.classifications :
           /\ fn_ret.classifications[i] = "Stressed"
           /\ fn_ret.classifications[j] = "Relaxed"
    /\ fn_ret.result.stress_flag = "Stressed"

\* C7: for a non-empty snapshot in time order the resampled series has one
\* entry for each whole second from the second of the first observation to
\* the second of the last, and no entry is undefined.
C7_Theorem ==
    (fn_call.fn = "pipeline" /\ fn_ret.done /\ fn_call.rows # <<>>) =>
        LET rows == fn_call.rows
        IN  /\ Len(fn_ret.resampled) =
                   (rows[Len(rows)].timestamp \div TicksPerSec)
                   - (rows[1].timestamp \div TicksPerSec) + 1
            /\ \A i \in DOMAIN fn_ret.resampled : fn_ret.resampled[i] # NaN
\* A snapshot with seconds that hold no observation and one that holds two.
C7_Witness ==
    /\ fn_call.fn = "pipeline" /\ fn_ret.done
    /\ Len(fn_call.rows) >= 3
    /\ Len(fn_ret.resampled) > Len(fn_call.rows)
    /\ \E i \in 1..(Len(fn_call.rows) - 1) :
           Second(fn_call.rows[i].timestamp) = Second(fn_call.rows[i + 1].timestamp)

\* The window starts of a series of length n, the values a window keeps,
\* and the starts of the windows that keep at least 5.
C8_Starts(n) == {st \in 0..n : st % 5 = 0 /\ st + 15 <= n}
C8_Window(s, st) == dropna(SubSeq(s, st + 1, st + 15))
C8_Producing(s) == {st \in C8_Starts(Len(s)) : Len(C8_Window(s, st)) >= 5}
\* C8: the Variability Estimator returns a series as long as its input;
\* from the last computed block on every position holds the last computed
\* value, and when no window produced a value every position is undefined.
C8_Theorem ==
    (fn_call.fn = "rmssd" /\ fn_ret.done) =>
        LET s == fn_call.series
            P == C8_Producing(s)
        IN  /\ Len(fn_ret.rmssd) = Len(s)
            /\ P = {} => \A i \in DOMAIN fn_ret.rmssd : fn_ret.rmssd[i] = NaN
            /\ P # {} =>
                   \A i \in DOMAIN fn_ret.rmssd :
                       i > 5 * (Cardinality(P) - 1) =>
                           fn_ret.rmssd[i] = calculate_rmssd(C8_Window(s, SetMax(P)))
\* Two windows produced different values, and positions follow the last block.
C8_Witness ==
    /\ fn_call.fn = "rmssd" /\ fn_ret.done
    /\ Cardinality(C8_Producing(fn_call.series)) >= 2
    /\ Len(fn_call.series) % 5 # 0
    /\ fn_ret.rmssd[1] # fn_ret.rmssd[Len(fn_ret.rmssd)]

\* C9, as claimed: with fewer than 5 observations the cycle returns the
\* insufficient-data outcome, and the count it reports is 0.  (The snapshot
\* with no observation at all is left out here.)
C9_Claim ==
    (/\ fn_call.fn = "pipeline" /\ fn_ret.done
     /\ fn_call.rows # <<>> /\ Len(fn_call.rows) < 5)
    => (fn_ret.result.kind = "error" /\ fn_ret.result.found = 0)

\* C10, as claimed: whatever is handed to the result sink is a Classification
\* Record, with the fields id, time, stress_flag and heart_rate.
C10_Claim ==
    \A i \in DOMAIN sink :
        /\ sink[i].kind = "record"
        /\ sink[i].keys = {"id", "time", "stress_flag", "heart_rate"}

\* A step in which a cycle produced its outcome.
C11_CycleStep == result' # result \/ sink' # sink
C11_Frame ==
    C11_CycleStep =>
        /\ hr_data_buffer' = hr_data_buffer
        /\ notes' = notes /\ accepted' = accepted
        /\ result' = run_cycle(hr_data_buffer', now')
\* C11: a cycle leaves the Sample Buffer as it was, and no notification is
\* handled between the snapshot and the outcome: the outcome is that of the
\* buffer as it stands when the outcome appears.
C11_Theorem == [][C11_Frame]_vars
\* A cycle returned a record for a full buffer whose newest reading came in
\* by a notification, and is being posted.
C11_Witness ==
    /\ pc = "posting" /\ result.kind = "record"
    /\ notes >= 1 /\ Len(accepted) > BufferMaxLen
    /\ result = run_cycle(hr_data_buffer, now)

\* C12, as claimed: whatever the snapshot, one observation or none included,
\* the cycle ends in a Classification Record or in the insufficient-data
\* outcome, and with fewer than two observations in the latter.
C12_Claim ==
    (fn_call.fn = "pipeline" /\ fn_ret.done) =>
        /\ fn_ret.result.kind \in {"record", "error"}
        /\ Len(fn_call.rows) <= 1 => fn_ret.result.kind = "error"

\* C13, as claimed: the window that starts at k*5 and keeps at least 5
\* entries has its value at the output positions k*5 .. k*5+4, and a window
\* that keeps fewer leaves its positions undefined or holding the padding,
\* the value of a computed block.  (Positions count from 1 here.)
C13_Claim ==
    (fn_call.fn = "rmssd" /\ fn_ret.done) =>
        LET s == fn_call.series
            padding == {calculate_rmssd(C8_Window(s, q)) : q \in C8_Producing(s)}
        IN  \A st \in C8_Starts(Len(s)) : \A i \in (st + 1)..(st + 5) :
                IF st \in C8_Producing(s)
                THEN fn_ret.rmssd[i] = calculate_rmssd(C8_Window(s, st))
                ELSE fn_ret.rmssd[i] = NaN \/ fn_ret.rmssd[i] \in padding

\* C14: the mask+interpolate step applied to its own output returns that
\* output.
C14_Theorem ==
    (fn_call.fn = "mask" /\ fn_ret.done) => fn_ret.twice = fn_ret.once
\* The first pass masked a leading entry, which stayed missing, and an inner
\* one, which it filled; the second pass returned the same series.
C14_Witness ==
    /\ fn_call.fn = "mask" /\ fn_ret.done
    /\ Len(fn_call.series) >= 4
    /\ IsNum(fn_call.series[1]) /\ fn_ret.once[1] = NaN
    /\ \E i \in DOMAIN fn_call.series :
           /\ IsNum(fn_call.series[i]) /\ fn_ret.masked[i] = NaN
           /\ IsNum(fn_ret.once[i])
    /\ fn_ret.twice = fn_ret.once

\* C15, as claimed: a masked position with a valid entry somewhere before it
\* and somewhere after it holds the value on the line between the nearest
\* two, a masked position with none before it or none after it stays
\* missing, and the series keeps its length.
C15_Claim ==
    (fn_call.fn = "mask" /\ fn_ret.done) =>
        LET m == fn_ret.masked
            out == fn_ret.once
        IN  /\ Len(out) = Len(fn_call.series)
            /\ \A i \in DOMAIN m :
                   LET P == {j \in 1..i : IsNum(m[j])}
                       Q == {j \in i..Len(m) : IsNum(m[j])}
                   IN  m[i] = NaN =>
                           IF P # {} /\ Q # {}
                           THEN out[i] = m[SetMax(P)]
                                    + ((m[SetMin(Q)] - m[SetMax(P)]) * (i - SetMax(P)))
                                          \div (SetMin(Q) - SetMax(P))
                           ELSE out[i] = NaN

\* C16: an attempt comes at least 30 s after the attempt before it; once an
\* attempt is over, last_post_time is not earlier than that attempt, whether
\* the pipeline ran or not; the pipeline ran in exactly the attempts that
\* found 5 observations or more; two runs of the pipeline are at least 30 s
\* apart; and the run whose outcome is being posted is the latest attempt.
C16_Theorem ==
    /\ \A i \in 1..(Len(cycles) - 1) :
           cycles[i + 1].at - cycles[i].at >= 30 * TicksPerSec
    /\ (cycles # <<>> /\ pc # "posting") =>
           last_post_time >= cycles[Len(cycles)].at
    /\ \A i \in DOMAIN cycles : cycles[i].ran <=> cycles[i].len >= 5
    /\ \A i, j \in DOMAIN cycles :
           (i < j /\ cycles[i].ran /\ cycles[j].ran) =>
               cycles[j].at - cycles[i].at >= 30 * TicksPerSec
    /\ pc = "posting" =>
           /\ cycles # <<>> /\ cycles[Len(cycles)].ran
           /\ cycles[Len(cycles)].sunk = Len(sink)
\* Two runs of the pipeline 30 s apart, the second one posted and the
\* reference reset after it.
C16_Witness ==
    /\ Len(cycles) = 2
    /\ cycles[1].ran /\ cycles[2].ran
    /\ cycles[2].at - cycles[1].at = 30 * TicksPerSec
    /\ pc = "sleeping" /\ last_post_time > cycles[2].at

C17_Tracks ==
    hr_data_buffer # <<>> =>
        last_data_time = hr_data_buffer[Len(hr_data_buffer)].timestamp
C17_RejectedKeeps ==
    (/\ notes' = notes + 1
     /\ LET d == Decode(last_note')
        IN  d.raised \/ d.bpm < 40 \/ d.bpm > 220)
    => (hr_data_buffer' = hr_data_buffer /\ last_data_time' = last_data_time)
\* C17: while the buffer is not empty, last_data_time is the timestamp of
\* its newest observation, and a notification that is malformed or out of
\* range changes neither the buffer nor last_data_time.
C17_Theorem == []C17_Tracks /\ [][C17_RejectedKeeps]_vars
\* A sample was accepted, and a notification half a second or more later was
\* rejected: last_data_time is still the time of the sample.
C17_Witness ==
    /\ notes = 2 /\ Len(accepted) > BufferMaxLen
    /\ Decode(last_note).raised \/ InvalidBpm(Decode(last_note).bpm)
    /\ hr_data_buffer[Len(hr_data_buffer)].timestamp > StartTick
    /\ now > last_data_time
    /\ last_data_time = hr_data_buffer[Len(hr_data_buffer)].timestamp

\* The worker is somewhere in its outer loop.
C18_Running == pc \in {"connecting", "sleeping", "posting", "backoff"}
\* A step of the worker itself, not of the clock or of a notification.
C18_WorkerStep == pc' # pc \/ wake_at' # wake_at
C18_Step ==
    /\ (pc = "sleeping" /\ now >= wake_at /\ C18_WorkerStep
           /\ now - last_data_time > 15 * TicksPerSec) =>
           /\ pc' = "backoff" /\ wake_at' = now + 5 * TicksPerSec
           /\ cycles' = cycles /\ sink' = sink /\ result' = result
    /\ (pc = "backoff" /\ C18_WorkerStep) =>
           (pc' = "connecting" /\ now >= wake_at)
    /\ (pc \in {"backoff", "connecting"} \/ pc' = "backoff") =>
           /\ hr_data_buffer' = hr_data_buffer
           /\ last_data_time' = last_data_time
           /\ last_post_time' = last_post_time
C19_NeverStale ==
    (pc = "sleeping" /\ now >= wake_at) =>
        ~(now - last_data_time > 15 * TicksPerSec)
\* The attempts made with 5 observations or more ran the pipeline, and its
\* outcome went to the sink.
C19_Handed ==
    \A i \in DOMAIN cycles :
        (cycles[i].at >= StartTick /\ cycles[i].len >= 5) =>
            /\ cycles[i].ran
            /\ cycles[i].sunk \in DOMAIN sink
            /\ sink[cycles[i].sunk].kind \in {"record", "error"}
\* When 30 s have passed since last_post_time, another attempt follows.
C19_Attempted ==
    \A k \in 1..2 :
        (pc = "sleeping" /\ Len(cycles) = k
           /\ now - last_post_time >= 30 * TicksPerSec)
        ~> (Len(cycles) > k)
\* C19: with the connection up, samples less than 15 s apart and the worker
\* and the clock scheduled fairly, the worker never finds the data stale,
\* every 30 s interval is followed by a cycle attempt, and an attempt on 5
\* observations or more runs the pipeline and hands its outcome to the sink.
C19_Theorem == []C19_NeverStale /\ []C19_Handed /\ C19_Attempted
\* A sample came 14.5 s after the one before it, the cycle that was due ran
\* and its outcome is in the sink.
C19_Witness ==
    /\ Len(cycles) = 2 /\ cycles[2].ran /\ cycles[2].sunk = 1
    /\ pc = "sleeping"
    /\ Len(accepted) >= 2
    /\ accepted[Len(accepted)].timestamp - accepted[Len(accepted) - 1].timestamp
           = 15 * TicksPerSec - 1

====
